---- MODULE Spec2Model ----
(***************************************************************************)
(* Model of src/main.py: the APC40 mkII bank-memory MIDI router.           *)
(*                                                                         *)
(* A MIDI message is a record [type, channel, id, value] where id is the   *)
(* note or control number and value the velocity or control value; the     *)
(* sysex message is [type, data].  Both output ports are kept in one       *)
(* sequence `out` of [port, msg] so that the order of sends across the two *)
(* ports is preserved.                                                     *)
(***************************************************************************)
EXTENDS Integers, Sequences, FiniteSets, TLC

VARIABLES
    pc,            \* position of main(): "start", "listening", "done", "crashed"
    active_bank,   \* global active_bank
    bank_states,   \* global bank_states
    out,           \* every message sent so far, in order, with its port
    trace,         \* inbound messages read so far, each with the bank active and Len(out) when read
    prev,          \* active_bank, bank_states and Len(out) just before the last message was read
    failed         \* a send on hw or virt has raised

vars == <<pc, active_bank, bank_states, out, trace, prev, failed>>

-----------------------------------------------------------------------------
(* Bounds of the model *)

\* number of inbound messages read from the hardware port in one run
MaxEvents == 3

-----------------------------------------------------------------------------
(* Constants of main.py *)

TRACK_SELECT_NOTE == 51
RING_STYLE_VOLUME == 2
NUM_BANKS == 8

\* list(range(a, b)) as a sequence
RangeList(a, b) == [i \in 1..(b - a) |-> a + i - 1]

DEVICE_VALUE_CCS == RangeList(16, 24)
DEVICE_RING_CCS  == RangeList(24, 32)
TRACK_VALUE_CCS  == RangeList(48, 56)
TRACK_RING_CCS   == RangeList(56, 64)

\* Python's `x in list`
In(x, list) == \E i \in DOMAIN list : list[i] = x

\* the set of elements of a list
Elems(list) == {list[i] : i \in DOMAIN list}

-----------------------------------------------------------------------------
(* Messages and sends *)

Message(type, channel, id, value) ==
    [type |-> type, channel |-> channel, id |-> id, value |-> value]

ToHw(m)   == [port |-> "hw", msg |-> m]
ToVirt(m) == [port |-> "virt", msg |-> m]

\* build_intro_sysex(mode=0x41, ver=(1, 0, 0))
build_intro_sysex(mode, ver) ==
    [type |-> "sysex",
     data |-> <<71, 127, 41, 96, 0, 4, mode, ver[1], ver[2], ver[3]>>]

\* send_ring_types(hw): the sends it makes, in order
send_ring_types ==
    [i \in 1..Len(DEVICE_RING_CCS) |->
        ToHw(Message("control_change", 0, DEVICE_RING_CCS[i], RING_STYLE_VOLUME))]
    \o
    [i \in 1..Len(TRACK_RING_CCS) |->
        ToHw(Message("control_change", 0, TRACK_RING_CCS[i], RING_STYLE_VOLUME))]

\* light_track_select(hw, bank): for ch in range(NUM_BANKS)
light_track_select(bank) ==
    [i \in 1..NUM_BANKS |->
        ToHw(Message("note_on", i - 1, TRACK_SELECT_NOTE,
                     IF i - 1 = bank THEN 127 ELSE 0))]

\* the initial bank_states: a list of NUM_BANKS dicts, indexed from 0
InitBankStates ==
    [b \in 0..(NUM_BANKS - 1) |->
        [device |-> [cc \in Elems(DEVICE_VALUE_CCS) |-> 0],
         track  |-> [cc \in Elems(TRACK_VALUE_CCS) |-> 0]]]

\* bank_states[bank] raises IndexError (channels are never negative)
recall_raises(bank, states) == bank \notin DOMAIN states

RecallPair_virtonly(cc, val, virtChannel) ==
    <<ToVirt(Message("control_change", virtChannel, cc, val))>>

\* the hw/virt pair recall_bank sends for one control
RecallPair(cc, val, virtChannel) ==
    <<ToHw(Message("control_change", 0, cc, val)),
      ToVirt(Message("control_change", virtChannel, cc, val))>>

\* the sends of one loop of recall_bank over a dict whose keys were inserted
\* in the order of `ccs` (dicts iterate in insertion order)
RECURSIVE RecallGroup(_, _, _, _)
RecallGroup(ccs, dict, virtChannel, i) ==
    IF i > Len(ccs) THEN << >>
    ELSE RecallPair(ccs[i], dict[ccs[i]], virtChannel)
         \o RecallGroup(ccs, dict, virtChannel, i + 1)

recall_bank_shared(bank, states) ==
    IF recall_raises(bank, states) THEN << >>
    ELSE RecallGroup(DEVICE_VALUE_CCS, states[bank].device, bank, 1)
         \o RecallGroup(TRACK_VALUE_CCS, states[bank].track, bank, 1)

\* recall_bank(bank, hw, virt): the sends it makes before returning or raising
recall_bank(bank, states) ==
    IF recall_raises(bank, states) THEN << >>
    ELSE RecallGroup(DEVICE_VALUE_CCS, states[bank].device, bank, 1)
         \o RecallGroup(TRACK_VALUE_CCS, states[bank].track, bank + 8, 1)

-----------------------------------------------------------------------------
(* Handlers: each returns the new globals, the sends made and whether an   *)
(* exception left the handler                                              *)

handle_cc_bank0(msg, ab, states) ==
    LET cc == msg.id  val == msg.value IN
    IF In(cc, DEVICE_VALUE_CCS) THEN
        [bank_states |-> [states EXCEPT ![0].device[cc] = val],
         sends |-> <<ToVirt(Message("control_change", ab, cc, val))>>]
    ELSE IF In(cc, TRACK_VALUE_CCS) THEN
        [bank_states |-> [states EXCEPT ![0].track[cc] = val],
         sends |-> <<ToVirt(Message("control_change", ab + 8, cc, val))>>]
    ELSE
        [bank_states |-> states, sends |-> <<ToVirt(msg)>>]

handle_cc_echo(msg, ab, states) ==
    LET cc == msg.id  val == msg.value IN
    IF In(cc, DEVICE_VALUE_CCS) THEN
        [bank_states |-> [states EXCEPT ![ab].device[cc] = val],
         sends |-> <<ToVirt(Message("control_change", ab, cc, val)),
                     ToHw(Message("control_change", 0, cc, val))>>]
    ELSE IF In(cc, TRACK_VALUE_CCS) THEN
        [bank_states |-> [states EXCEPT ![ab].track[cc] = val],
         sends |-> <<ToVirt(Message("control_change", ab + 8, cc, val)),
                     ToHw(Message("control_change", 0, cc, val))>>]
    ELSE
        [bank_states |-> states, sends |-> <<ToVirt(msg)>>]

handle_cc_nopass(msg, ab, states) ==
    LET cc == msg.id  val == msg.value IN
    IF In(cc, DEVICE_VALUE_CCS) THEN
        [bank_states |-> [states EXCEPT ![ab].device[cc] = val],
         sends |-> <<ToVirt(Message("control_change", ab, cc, val))>>]
    ELSE IF In(cc, TRACK_VALUE_CCS) THEN
        [bank_states |-> [states EXCEPT ![ab].track[cc] = val],
         sends |-> <<ToVirt(Message("control_change", ab + 8, cc, val))>>]
    ELSE
        [bank_states |-> states, sends |-> << >>]

handle_cc_inchannel(msg, ab, states) ==
    LET cc == msg.id  val == msg.value IN
    IF In(cc, DEVICE_VALUE_CCS) THEN
        [bank_states |-> [states EXCEPT ![ab].device[cc] = val],
         sends |-> <<ToVirt(Message("control_change", msg.channel, cc, val))>>]
    ELSE IF In(cc, TRACK_VALUE_CCS) THEN
        [bank_states |-> [states EXCEPT ![ab].track[cc] = val],
         sends |-> <<ToVirt(Message("control_change", msg.channel, cc, val))>>]
    ELSE
        [bank_states |-> states, sends |-> <<ToVirt(msg)>>]

handle_cc_alias(msg, ab, states) ==
    LET cc == msg.id  val == msg.value IN
    IF In(cc, DEVICE_VALUE_CCS) THEN
        [bank_states |-> [b \in DOMAIN states |->
                            [states[b] EXCEPT !.device[cc] = val]],
         sends |-> <<ToVirt(Message("control_change", ab, cc, val))>>]
    ELSE IF In(cc, TRACK_VALUE_CCS) THEN
        [bank_states |-> [b \in DOMAIN states |->
                            [states[b] EXCEPT !.track[cc] = val]],
         sends |-> <<ToVirt(Message("control_change", ab + 8, cc, val))>>]
    ELSE
        [bank_states |-> states, sends |-> <<ToVirt(msg)>>]

\* handle_cc(msg, hw, virt)
handle_cc(msg, ab, states) ==
    LET cc == msg.id  val == msg.value IN
    IF In(cc, DEVICE_VALUE_CCS) THEN
        [bank_states |-> [states EXCEPT ![ab].device[cc] = val],
         sends |-> <<ToVirt(Message("control_change", ab, cc, val))>>]
    ELSE IF In(cc, TRACK_VALUE_CCS) THEN
        [bank_states |-> [states EXCEPT ![ab].track[cc] = val],
         sends |-> <<ToVirt(Message("control_change", ab + 8, cc, val))>>]
    ELSE
        [bank_states |-> states, sends |-> <<ToVirt(msg)>>]

handle_track_select_always(note_msg, ab, states) ==
    LET new_bank == note_msg.channel IN
    [active_bank |-> new_bank,
     sends |-> light_track_select(new_bank) \o recall_bank(new_bank, states),
     raised |-> recall_raises(new_bank, states)]

handle_track_select_recallfirst(note_msg, ab, states) ==
    LET new_bank == note_msg.channel IN
    IF new_bank = ab THEN
        [active_bank |-> ab, sends |-> << >>, raised |-> FALSE]
    ELSE
        [active_bank |-> new_bank,
         sends |-> recall_bank(new_bank, states) \o light_track_select(new_bank),
         raised |-> recall_raises(new_bank, states)]

\* handle_track_select(note_msg, hw, virt)
handle_track_select(note_msg, ab, states) ==
    LET new_bank == note_msg.channel IN
    IF new_bank = ab THEN
        [active_bank |-> ab, sends |-> << >>, raised |-> FALSE]
    ELSE
        [active_bank |-> new_bank,
         sends |-> light_track_select(new_bank) \o recall_bank(new_bank, states),
         raised |-> recall_raises(new_bank, states)]

-----------------------------------------------------------------------------
(* The tests of the dispatch loop of main() *)

IsTrackSelect_anyvel(msg) ==
    msg.type = "note_on" /\ msg.id = TRACK_SELECT_NOTE

\* line 161
IsTrackSelect(msg) ==
    msg.type = "note_on" /\ msg.id = TRACK_SELECT_NOTE /\ msg.value > 0

IsTrackSelectOff_chan0(msg) ==
    msg.type = "note_off" /\ msg.id = TRACK_SELECT_NOTE /\ msg.channel = 0

\* line 166
IsTrackSelectOff(msg) ==
    msg.type = "note_off" /\ msg.id = TRACK_SELECT_NOTE

\* line 170
IsControlChange(msg) == msg.type = "control_change"

-----------------------------------------------------------------------------
(* Inbound messages the hardware port may deliver *)

InBankSelect ==
    {Message("note_on", ch, TRACK_SELECT_NOTE, 127) : ch \in {0, 7, 8, 15}}
    \cup {Message("note_on", 1, TRACK_SELECT_NOTE, 1)}

InNotes ==
    {Message("note_on", 0, TRACK_SELECT_NOTE, 0),
     Message("note_off", 1, TRACK_SELECT_NOTE, 0),
     Message("note_off", 15, TRACK_SELECT_NOTE, 64),
     Message("note_on", 1, 52, 127)}

InKnobs ==
    {Message("control_change", 0, 16, 0),
     Message("control_change", 0, 16, 64),
     Message("control_change", 9, 23, 127),
     Message("control_change", 0, 48, 64),
     Message("control_change", 15, 55, 1)}

InOtherCC ==
    {Message("control_change", 3, 15, 9),
     Message("control_change", 0, 24, 2),
     Message("control_change", 0, 56, 100)}

InOther == {Message("program_change", 5, 12, 0)}

Events == InBankSelect \cup InNotes \cup InKnobs \cup InOtherCC \cup InOther

-----------------------------------------------------------------------------
(* The program *)

Init ==
    /\ pc = "start"
    /\ active_bank = 0
    /\ bank_states = InitBankStates
    /\ out = << >>
    /\ trace = << >>
    /\ prev = [active_bank |-> 0, bank_states |-> InitBankStates, outLen |-> 0]
    /\ failed = FALSE

Startup_skip ==
    /\ pc = "start"
    /\ out' = out
              \o <<ToHw(build_intro_sysex(65, <<1, 0, 0>>))>>
              \o send_ring_types
    /\ pc' = "listening"
    /\ prev' = [prev EXCEPT !.outLen = Len(out')]
    /\ UNCHANGED <<active_bank, bank_states, trace, failed>>

\* main() up to "Listening...": lines 139-157
Startup ==
    /\ pc = "start"
    /\ out' = out
              \o <<ToHw(build_intro_sysex(65, <<1, 0, 0>>))>>
              \o send_ring_types
              \o light_track_select(active_bank)
              \o recall_bank(active_bank, bank_states)
    /\ pc' = IF recall_raises(active_bank, bank_states) THEN "crashed" ELSE "listening"
    /\ prev' = [prev EXCEPT !.outLen = Len(out')]
    /\ UNCHANGED <<active_bank, bank_states, trace, failed>>

\* `for msg in inp` delivers msg: what every branch of the loop records
Read(msg) ==
    /\ pc = "listening"
    /\ Len(trace) < MaxEvents
    /\ trace' = Append(trace, [ev |-> msg, bank |-> active_bank, at |-> Len(out)])
    /\ prev' = [active_bank |-> active_bank, bank_states |-> bank_states,
                outLen |-> Len(out)]

\* lines 161-163
TrackSelect ==
    \E msg \in Events :
        /\ Read(msg)
        /\ IsTrackSelect(msg)
        /\ LET r == handle_track_select(msg, active_bank, bank_states) IN
            /\ active_bank' = r.active_bank
            /\ out' = out \o r.sends
            /\ pc' = IF r.raised THEN "crashed" ELSE "listening"
        /\ UNCHANGED <<bank_states, failed>>

\* lines 166-167
IgnoreTrackSelectOff ==
    \E msg \in Events :
        /\ Read(msg)
        /\ ~IsTrackSelect(msg)
        /\ IsTrackSelectOff(msg)
        /\ UNCHANGED <<pc, active_bank, bank_states, out, failed>>

ControlChange_reordered ==
    \E msg \in Events :
        /\ Read(msg)
        /\ ~IsTrackSelect(msg)
        /\ ~IsTrackSelectOff(msg)
        /\ IsControlChange(msg)
        /\ LET r == handle_cc(msg, active_bank, bank_states) IN
            /\ bank_states' = r.bank_states
            /\ out' = SubSeq(out, 1, Len(out) - 1) \o r.sends
                      \o SubSeq(out, Len(out), Len(out))
        /\ UNCHANGED <<pc, active_bank, failed>>

\* lines 170-172
ControlChange ==
    \E msg \in Events :
        /\ Read(msg)
        /\ ~IsTrackSelect(msg)
        /\ ~IsTrackSelectOff(msg)
        /\ IsControlChange(msg)
        /\ LET r == handle_cc(msg, active_bank, bank_states) IN
            /\ bank_states' = r.bank_states
            /\ out' = out \o r.sends
        /\ UNCHANGED <<pc, active_bank, failed>>

\* lines 175-176
Other ==
    \E msg \in Events :
        /\ Read(msg)
        /\ ~IsTrackSelect(msg)
        /\ ~IsTrackSelectOff(msg)
        /\ ~IsControlChange(msg)
        /\ out' = Append(out, ToVirt(msg))
        /\ UNCHANGED <<pc, active_bank, bank_states, failed>>

\* the input port closes: the for loop and the with block end
EndOfStream ==
    /\ pc = "listening"
    /\ pc' = "done"
    /\ UNCHANGED <<active_bank, bank_states, out, trace, prev, failed>>

Next ==
    \/ Startup
    \/ TrackSelect
    \/ IgnoreTrackSelectOff
    \/ ControlChange
    \/ Other
    \/ EndOfStream

Spec == Init /\ [][Next]_vars

-----------------------------------------------------------------------------
(* The program with sends that may raise.  hw.send and virt.send are never *)
(* wrapped in try/except: the exception of a failing send leaves the        *)
(* handler, the loop and main(), and the process ends.  What was assigned   *)
(* and sent before the failing send stays; the failing message is not sent. *)

\* how many sends succeed before the one that raises: the first send, sends
\* inside and at the end of each phase of startup and of a bank switch, and
\* the last send
FailPoints(sends) ==
    {k \in {0, 8, 9, 17, 25, Len(sends) - 1} : 0 <= k /\ k < Len(sends)}

\* the sends of main() before the loop, lines 144-155
StartupSends(ab, states) ==
    <<ToHw(build_intro_sysex(65, <<1, 0, 0>>))>>
    \o send_ring_types
    \o light_track_select(ab)
    \o recall_bank(ab, states)

\* a send of lines 144-155 raises
StartupFail ==
    /\ pc = "start"
    /\ \E k \in FailPoints(StartupSends(active_bank, bank_states)) :
        out' = out \o SubSeq(StartupSends(active_bank, bank_states), 1, k)
    /\ pc' = "crashed"
    /\ failed' = TRUE
    /\ prev' = [prev EXCEPT !.outLen = Len(out')]
    /\ UNCHANGED <<active_bank, bank_states, trace>>

\* a send of light_track_select or recall_bank raises inside
\* handle_track_select: active_bank is already assigned (line 127)
TrackSelectFail ==
    \E msg \in Events :
        /\ Read(msg)
        /\ IsTrackSelect(msg)
        /\ LET r == handle_track_select(msg, active_bank, bank_states) IN
            /\ active_bank' = r.active_bank
            /\ \E k \in FailPoints(r.sends) : out' = out \o SubSeq(r.sends, 1, k)
        /\ pc' = "crashed"
        /\ failed' = TRUE
        /\ UNCHANGED bank_states

ControlChangeFail_continue ==
    \E msg \in Events :
        /\ Read(msg)
        /\ ~IsTrackSelect(msg)
        /\ ~IsTrackSelectOff(msg)
        /\ IsControlChange(msg)
        /\ LET r == handle_cc(msg, active_bank, bank_states) IN
            /\ bank_states' = r.bank_states
            /\ \E k \in FailPoints(r.sends) : out' = out \o SubSeq(r.sends, 1, k)
        /\ pc' = "listening"
        /\ failed' = TRUE
        /\ UNCHANGED active_bank

\* the virt.send of handle_cc raises: the value is already stored (lines 100, 107)
ControlChangeFail ==
    \E msg \in Events :
        /\ Read(msg)
        /\ ~IsTrackSelect(msg)
        /\ ~IsTrackSelectOff(msg)
        /\ IsControlChange(msg)
        /\ LET r == handle_cc(msg, active_bank, bank_states) IN
            /\ bank_states' = r.bank_states
            /\ \E k \in FailPoints(r.sends) : out' = out \o SubSeq(r.sends, 1, k)
        /\ pc' = "crashed"
        /\ failed' = TRUE
        /\ UNCHANGED active_bank

\* the virt.send of line 175 raises
OtherFail ==
    \E msg \in Events :
        /\ Read(msg)
        /\ ~IsTrackSelect(msg)
        /\ ~IsTrackSelectOff(msg)
        /\ ~IsControlChange(msg)
        /\ pc' = "crashed"
        /\ failed' = TRUE
        /\ UNCHANGED <<active_bank, bank_states, out>>

NextFail ==
    \/ Next
    \/ StartupFail
    \/ TrackSelectFail
    \/ ControlChangeFail
    \/ OtherFail

SpecFail == Init /\ [][NextFail]_vars

-----------------------------------------------------------------------------
(* Vocabulary of the properties *)

Banks == 0..(NUM_BANKS - 1)
DeviceControls == Elems(DEVICE_VALUE_CCS)
TrackControls == Elems(TRACK_VALUE_CCS)

\* at least one inbound message has been read and handled
HasLast == Len(trace) > 0
\* the inbound message handled last
LastEv == trace[Len(trace)].ev
\* the sends its handling made, in order
Emitted == SubSeq(out, prev.outLen + 1, Len(out))
\* its handling changed neither global
GlobalsKept ==
    active_bank = prev.active_bank /\ bank_states = prev.bank_states

\* how many sends of s go to `port` and satisfy Test
Count(s, port, Test(_)) ==
    Cardinality({i \in DOMAIN s : s[i].port = port /\ Test(s[i].msg)})

\* a bank-select press: a note-on on the bank-select note with velocity > 0
IsPress(m) ==
    m.type = "note_on" /\ m.id = TRACK_SELECT_NOTE /\ m.value > 0

\* the last message was a bank-select press for a bank other than the active one
LastIsSwitch ==
    /\ HasLast
    /\ IsPress(LastEv)
    /\ LastEv.channel # prev.active_bank

\* the last message was a bank-select press for the bank already active
LastIsSelfSelect ==
    /\ HasLast
    /\ IsPress(LastEv)
    /\ LastEv.channel = prev.active_bank

\* the last message was a Device or Track knob movement
LastIsKnob ==
    /\ HasLast
    /\ LastEv.type = "control_change"
    /\ LastEv.id \in DeviceControls \cup TrackControls

\* the value of the latest knob message for control c read while bank b was
\* active, among the first i messages of tr; 0 when there is none
RECURSIVE LastKnobValue(_, _, _, _)
LastKnobValue(tr, b, c, i) ==
    IF i = 0 THEN 0
    ELSE IF tr[i].ev.type = "control_change" /\ tr[i].ev.id = c /\ tr[i].bank = b
         THEN tr[i].ev.value
         ELSE LastKnobValue(tr, b, c, i - 1)

-----------------------------------------------------------------------------
(* C1 *)

\* C1: active_bank is 0 initially and is an integer in [0, NUM_BANKS) in every
\* reachable state, whatever the channel (0..15) of the bank-select presses.
C1_ActiveBankInRange ==
    /\ pc = "start" => active_bank = 0
    /\ active_bank \in Banks

-----------------------------------------------------------------------------
(* C2 *)

\* C2: every Bank Store entry (b, g, c) holds the value of the latest knob
\* message for c handled while b was active, or 0 if there was none.
\* (A bank that was active for no message of the trace has no knob message:
\* all its entries must be 0, which is compared in one step.)
C2_LastWriteWins ==
    /\ DOMAIN bank_states = Banks
    /\ \A b \in Banks :
        IF \A i \in DOMAIN trace : trace[i].bank # b
        THEN bank_states[b] = [device |-> [c \in DeviceControls |-> 0],
                               track |-> [c \in TrackControls |-> 0]]
        ELSE
            /\ \A c \in DeviceControls :
                bank_states[b].device[c] = LastKnobValue(trace, b, c, Len(trace))
            /\ \A c \in TrackControls :
                bank_states[b].track[c] = LastKnobValue(trace, b, c, Len(trace))

\* a control of a bank other than 0 was written twice with different values
C2_Witness ==
    \E i, j \in DOMAIN trace :
        /\ i < j
        /\ trace[i].ev.type = "control_change" /\ trace[j].ev.type = "control_change"
        /\ trace[i].ev.id = trace[j].ev.id
        /\ trace[i].ev.id \in DeviceControls
        /\ trace[i].bank = trace[j].bank /\ trace[i].bank # 0
        /\ trace[i].ev.value # trace[j].ev.value
        /\ bank_states[trace[j].bank].device[trace[j].ev.id] = trace[j].ev.value

-----------------------------------------------------------------------------
(* C3 *)

\* the recall of bank t is complete in the sends s: for each Device and Track
\* control one control-change to hw (channel 0) and one to virt (channel t or
\* t + NUM_BANKS), each with the value `states` stores, and no other
\* control-change for that control
RecallComplete(s, t, states) ==
    /\ t \in DOMAIN states
    /\ \A c \in DeviceControls :
        LET IsC(m) == m.type = "control_change" /\ m.id = c
            IsHwC(m) == m = Message("control_change", 0, c, states[t].device[c])
            IsVirtC(m) == m = Message("control_change", t, c, states[t].device[c])
        IN  /\ Count(s, "hw", IsC) = 1 /\ Count(s, "hw", IsHwC) = 1
            /\ Count(s, "virt", IsC) = 1 /\ Count(s, "virt", IsVirtC) = 1
    /\ \A c \in TrackControls :
        LET IsC(m) == m.type = "control_change" /\ m.id = c
            IsHwC(m) == m = Message("control_change", 0, c, states[t].track[c])
            IsVirtC(m) ==
                m = Message("control_change", t + NUM_BANKS, c, states[t].track[c])
        IN  /\ Count(s, "hw", IsC) = 1 /\ Count(s, "hw", IsHwC) = 1
            /\ Count(s, "virt", IsC) = 1 /\ Count(s, "virt", IsVirtC) = 1

\* C3: every bank switch to a target other than the active bank sends, for
\* every Device and Track control, exactly one control-change to hw on channel
\* 0 and exactly one to virt on channel target (Device) or target + NUM_BANKS
\* (Track), with the stored value of (target, group, control).
C3_RecallOnEverySwitch ==
    LastIsSwitch => RecallComplete(Emitted, LastEv.channel, prev.bank_states)

\* the same, for the switches whose target is one of the NUM_BANKS banks
C3_RecallOnSwitchToBank ==
    (LastIsSwitch /\ LastEv.channel \in Banks)
        => RecallComplete(Emitted, LastEv.channel, prev.bank_states)

-----------------------------------------------------------------------------
(* C4 *)

\* the LED feedback for bank t is in the sends s: NUM_BANKS note-ons on the
\* bank-select note to hw, one per channel of [0, NUM_BANKS), exactly one of
\* them with velocity 127, on channel t, the others with velocity 0
LedFeedback(s, t) ==
    LET IsLed(m) == m.type = "note_on" /\ m.id = TRACK_SELECT_NOTE
        IsLit(m) == IsLed(m) /\ m.value = 127
        IsDark(m) == IsLed(m) /\ m.value = 0
        IsLitT(m) == IsLit(m) /\ m.channel = t
    IN  /\ Count(s, "hw", IsLed) = NUM_BANKS
        /\ \A i \in Banks :
            LET IsLedI(m) == IsLed(m) /\ m.channel = i
            IN Count(s, "hw", IsLedI) = 1
        /\ Count(s, "hw", IsLit) = 1
        /\ Count(s, "hw", IsLitT) = 1
        /\ Count(s, "hw", IsDark) = NUM_BANKS - 1

\* C4: after a bank-select press (velocity > 0) on any channel t other than
\* the active bank, exactly NUM_BANKS note-ons on the bank-select note went to
\* hw, one per channel, one with velocity 127 (channel t) and the rest 0.
C4_LedExclusiveOnEverySwitch ==
    LastIsSwitch => LedFeedback(Emitted, LastEv.channel)

\* the same, for the switches whose target is one of the NUM_BANKS banks
C4_LedExclusiveOnSwitchToBank ==
    (LastIsSwitch /\ LastEv.channel \in Banks)
        => LedFeedback(Emitted, LastEv.channel)

-----------------------------------------------------------------------------
(* C5 *)

\* C5: a bank-select press (velocity > 0) on the channel of the active bank
\* sends nothing on either port and leaves active_bank and bank_states as they
\* were, also as the very first inbound message after startup.
C5_SelfSelectNoOp ==
    LastIsSelfSelect => (Emitted = << >> /\ GlobalsKept)

\* bank 0 is re-selected as the very first inbound message, one of its knobs
\* is moved, and bank 0 is re-selected again
C5_Witness ==
    /\ Len(trace) = 3
    /\ IsTrackSelect(trace[1].ev) /\ trace[1].ev.channel = 0 /\ trace[1].bank = 0
    /\ LastIsSelfSelect
    /\ \E c \in DeviceControls : bank_states[active_bank].device[c] # 0
    /\ Emitted = << >>

-----------------------------------------------------------------------------
(* C6 *)

\* C6: a control-change with a Device or Track control id, on any inbound
\* channel, sends exactly one message: a control-change to virt with the same
\* control and value on channel active_bank (Device) or active_bank + NUM_BANKS
\* (Track); nothing goes to hw.
C6_LiveUpdateOneVirtualSend ==
    LastIsKnob =>
        Emitted = <<ToVirt(Message("control_change",
                                   IF LastEv.id \in DeviceControls
                                       THEN prev.active_bank
                                       ELSE prev.active_bank + NUM_BANKS,
                                   LastEv.id, LastEv.value))>>

\* a Track knob arrives on an inbound channel other than 0 while a bank other
\* than 0 is active
C6_Witness ==
    /\ LastIsKnob
    /\ LastEv.id \in TrackControls
    /\ LastEv.channel # 0
    /\ prev.active_bank # 0
    /\ Len(Emitted) = 1

-----------------------------------------------------------------------------
(* C7 *)

\* C7: a note-on with velocity 0 on the bank-select note is ignored: it sends
\* nothing on either port and changes neither active_bank nor bank_states.
C7_NoteOnVelocityZeroIgnored ==
    (/\ HasLast
     /\ LastEv.type = "note_on"
     /\ LastEv.id = TRACK_SELECT_NOTE
     /\ LastEv.value = 0)
        => (Emitted = << >> /\ GlobalsKept)

-----------------------------------------------------------------------------
(* C8 *)

\* C8: a note-off on the bank-select note, on any channel, is ignored: it
\* sends nothing on either port and changes neither active_bank nor bank_states.
C8_NoteOffIgnored ==
    (/\ HasLast
     /\ LastEv.type = "note_off"
     /\ LastEv.id = TRACK_SELECT_NOTE)
        => (Emitted = << >> /\ GlobalsKept)

\* a bank-select note-off on a channel other than 0 and other than the active
\* bank was read
C8_Witness ==
    /\ HasLast
    /\ LastEv.type = "note_off"
    /\ LastEv.id = TRACK_SELECT_NOTE
    /\ LastEv.channel # 0
    /\ LastEv.channel # active_bank
    /\ active_bank # 0

-----------------------------------------------------------------------------
(* C9 *)

\* the last message is neither a bank-select note-on or note-off nor a Device
\* or Track knob movement
LastIsPassthrough ==
    /\ HasLast
    /\ ~(LastEv.type \in {"note_on", "note_off"} /\ LastEv.id = TRACK_SELECT_NOTE)
    /\ ~LastIsKnob

\* C9: every inbound message that is neither a bank-select note-on/note-off
\* nor a Device/Track control-change causes exactly one send, to virt, of the
\* inbound message itself, none to hw, and no change of bank_states or
\* active_bank.
C9_PassthroughUnmodified ==
    LastIsPassthrough => (Emitted = <<ToVirt(LastEv)>> /\ GlobalsKept)

\* a ring-style control-change was passed through while a bank other than 0
\* was active
C9_Witness ==
    /\ LastIsPassthrough
    /\ LastEv.type = "control_change"
    /\ LastEv.id \in Elems(DEVICE_RING_CCS) \cup Elems(TRACK_RING_CCS)
    /\ active_bank # 0
    /\ Emitted = <<ToVirt(LastEv)>>

\* a message of another type was passed through
C9_WitnessOtherType ==
    /\ LastIsPassthrough
    /\ LastEv.type \notin {"note_on", "note_off", "control_change"}
    /\ Emitted = <<ToVirt(LastEv)>>

-----------------------------------------------------------------------------
(* C10 *)

\* C10: every control-change recall or live update sent to virt (those with a
\* Device or Track control id: passthrough never carries one) has a channel in
\* [0, 15]; Device ones are on a channel in [0, NUM_BANKS), Track ones on a
\* channel in [NUM_BANKS, 2 * NUM_BANKS).
C10_VirtualChannelRanges ==
    \A i \in DOMAIN out :
        (out[i].port = "virt" /\ out[i].msg.type = "control_change") =>
            /\ out[i].msg.id \in DeviceControls =>
                out[i].msg.channel \in 0..(NUM_BANKS - 1)
            /\ out[i].msg.id \in TrackControls =>
                out[i].msg.channel \in NUM_BANKS..(2 * NUM_BANKS - 1)
            /\ out[i].msg.id \in DeviceControls \cup TrackControls =>
                out[i].msg.channel \in 0..15

\* the highest bank was recalled and then one of its Track knobs moved: Track
\* messages on channel 15 came from recall and from live update; and a press on
\* a channel past the last bank was read
C10_Witness ==
    /\ LastIsKnob
    /\ LastEv.id \in TrackControls
    /\ prev.active_bank = NUM_BANKS - 1
    /\ Emitted[1].msg.channel = 2 * NUM_BANKS - 1
    /\ \E i \in 1..prev.outLen :
        /\ out[i].port = "virt"
        /\ out[i].msg.type = "control_change"
        /\ out[i].msg.channel = 2 * NUM_BANKS - 1

C10_WitnessPastLastBank ==
    /\ LastIsSwitch
    /\ LastEv.channel \notin Banks

-----------------------------------------------------------------------------
(* C11 *)

\* C11: with no send failing, the loop handles every message of any finite
\* inbound stream (any type, any channel 0..15) in order and then ends cleanly
\* at the end of the stream: no run of the program ends in an exception, and
\* main() is past its loop only after a clean end of the stream.
C11_CleanTermination ==
    ~failed => pc # "crashed"

\* the same, for the streams whose bank-select presses are all on channels of
\* [0, NUM_BANKS)
C11_CleanTerminationInRange ==
    (~failed /\ \A i \in DOMAIN trace :
                    IsPress(trace[i].ev) => trace[i].ev.channel \in Banks)
        => pc # "crashed"

-----------------------------------------------------------------------------
(* C12 *)

\* the body of the loop of main() for one message handled alone and in full,
\* from active bank ab and store `states`: the new globals, the sends, and
\* whether an exception left it
Dispatch(msg, ab, states) ==
    IF IsTrackSelect(msg) THEN
        LET r == handle_track_select(msg, ab, states) IN
        [active_bank |-> r.active_bank, bank_states |-> states,
         sends |-> r.sends, raised |-> r.raised]
    ELSE IF IsTrackSelectOff(msg) THEN
        [active_bank |-> ab, bank_states |-> states,
         sends |-> << >>, raised |-> FALSE]
    ELSE IF IsControlChange(msg) THEN
        LET r == handle_cc(msg, ab, states) IN
        [active_bank |-> ab, bank_states |-> r.bank_states,
         sends |-> r.sends, raised |-> FALSE]
    ELSE
        [active_bank |-> ab, bank_states |-> states,
         sends |-> <<ToVirt(msg)>>, raised |-> FALSE]

\* the globals and the sends after the first i messages of the trace, each
\* handled in full before the next one, starting from the state after startup
\* `reads` holds, for each message, the active bank and the number of sends
\* made when it is read
InitialSends == StartupSends(0, InitBankStates)

RECURSIVE Replay(_)
Replay(i) ==
    IF i = 0 THEN
        [active_bank |-> 0, bank_states |-> InitBankStates,
         out |-> InitialSends, reads |-> << >>]
    ELSE
        LET p == Replay(i - 1)
            d == Dispatch(trace[i].ev, p.active_bank, p.bank_states)
        IN [active_bank |-> d.active_bank, bank_states |-> d.bank_states,
            out |-> p.out \o d.sends,
            reads |-> Append(p.reads, [bank |-> p.active_bank, at |-> Len(p.out)])]

\* C12: messages are handled run-to-completion in stream order: when a message
\* is read, every send and every change of the globals caused by the earlier
\* messages has happened and none of its own, so `out` is the concatenation, in
\* input order, of each message's own sends (after those of startup).
C12_RunToCompletion ==
    pc # "start" =>
        LET r == Replay(Len(trace)) IN
        /\ \A i \in DOMAIN trace :
            /\ trace[i].at = r.reads[i].at
            /\ trace[i].bank = r.reads[i].bank
        /\ active_bank = r.active_bank
        /\ bank_states = r.bank_states
        /\ out = r.out

\* a knob was moved, another bank was recalled, and a message was passed
\* through: three messages with sends of their own, in that order
C12_Witness ==
    /\ Len(trace) = 3
    /\ trace[1].ev.type = "control_change" /\ trace[1].ev.id \in DeviceControls
    /\ IsTrackSelect(trace[2].ev) /\ trace[2].ev.channel = 7
    /\ trace[3].ev.type = "program_change"
    /\ trace[2].at = trace[1].at + 1
    /\ trace[3].at = trace[2].at + 40
    /\ Len(out) = trace[3].at + 1

-----------------------------------------------------------------------------
(* C13 *)

\* the number of sends of startup: 1 handshake, 16 ring styles, NUM_BANKS
\* LEDs, 2 per Device and Track control
StartupLen ==
    1 + Len(DEVICE_RING_CCS) + Len(TRACK_RING_CCS) + NUM_BANKS
      + 2 * (Len(DEVICE_VALUE_CCS) + Len(TRACK_VALUE_CCS))

RingControls == Elems(DEVICE_RING_CCS) \cup Elems(TRACK_RING_CCS)

IsSysex(m) == m.type = "sysex"

\* the sends the claim lists, the controls of each group in ascending order
C13_Expected ==
    <<ToHw([type |-> "sysex", data |-> <<71, 127, 41, 96, 0, 4, 65, 1, 0, 0>>])>>
    \o [i \in 1..8 |-> ToHw(Message("control_change", 0, 23 + i, RING_STYLE_VOLUME))]
    \o [i \in 1..8 |-> ToHw(Message("control_change", 0, 55 + i, RING_STYLE_VOLUME))]
    \o [i \in 1..NUM_BANKS |->
           ToHw(Message("note_on", i - 1, TRACK_SELECT_NOTE,
                        IF i = 1 THEN 127 ELSE 0))]
    \o [i \in 1..16 |->
           IF i % 2 = 1
               THEN ToHw(Message("control_change", 0, 16 + (i - 1) \div 2, 0))
               ELSE ToVirt(Message("control_change", 0, 16 + (i - 1) \div 2, 0))]
    \o [i \in 1..16 |->
           IF i % 2 = 1
               THEN ToHw(Message("control_change", 0, 48 + (i - 1) \div 2, 0))
               ELSE ToVirt(Message("control_change", NUM_BANKS, 48 + (i - 1) \div 2, 0))]

\* C13: before any inbound message is read the program has sent, once and in
\* this order: the handshake sysex to hw; one ring-style control-change (value
\* RING_STYLE_VOLUME, channel 0) to hw for each of the 16 ring controls; the
\* NUM_BANKS LED messages for bank 0; the full recall of bank 0 to hw and virt.
\* The LED messages and the recall are sent although active_bank is already 0.
\* Neither the handshake nor a ring style is ever sent to hw again.
C13_StartupSequence ==
    /\ pc = "start" => out = << >>
    /\ pc # "start" =>
        /\ Len(C13_Expected) = StartupLen
        /\ Len(out) >= StartupLen
        /\ SubSeq(out, 1, StartupLen) = C13_Expected
        /\ (trace = << >>) => Len(out) = StartupLen
        /\ \A i \in DOMAIN trace : trace[i].at >= StartupLen
        /\ \A p \in (StartupLen + 1)..Len(out) :
            /\ out[p].msg.type # "sysex"
            /\ ~(/\ out[p].port = "hw"
                 /\ out[p].msg.type = "control_change"
                 /\ out[p].msg.id \in RingControls)

\* startup is over and no inbound message has been read
C13_Witness ==
    /\ pc = "listening"
    /\ trace = << >>
    /\ Len(out) = StartupLen
    /\ active_bank = 0

-----------------------------------------------------------------------------
(* C14 *)

\* C14: bank_states changes only when a Device or Track knob control-change is
\* handled, and then only in the entry (active bank, group, control), which
\* takes the message's value; every other entry, and every entry on a bank
\* switch (recall included), on startup and on any other message, is kept.
C14_StoreFrame ==
    /\ ~HasLast => bank_states = InitBankStates
    /\ (HasLast /\ ~LastIsKnob) => bank_states = prev.bank_states
    /\ (HasLast /\ LastIsKnob) =>
        /\ DOMAIN bank_states = DOMAIN prev.bank_states
        /\ \A b \in Banks :
            /\ \A c \in DeviceControls :
                bank_states[b].device[c] =
                    IF b = prev.active_bank /\ c = LastEv.id
                        THEN LastEv.value ELSE prev.bank_states[b].device[c]
            /\ \A c \in TrackControls :
                bank_states[b].track[c] =
                    IF b = prev.active_bank /\ c = LastEv.id
                        THEN LastEv.value ELSE prev.bank_states[b].track[c]

\* a Track knob is moved in a bank other than 0 that already holds a Device
\* value, and only that one entry changes
C14_Witness ==
    /\ LastIsKnob
    /\ LastEv.id \in TrackControls
    /\ prev.active_bank # 0
    /\ \E c \in DeviceControls : prev.bank_states[prev.active_bank].device[c] # 0
    /\ bank_states # prev.bank_states
    /\ bank_states[prev.active_bank].device = prev.bank_states[prev.active_bank].device

\* a bank switch with its recall leaves a store that holds a value unchanged
C14_WitnessSwitch ==
    /\ LastIsSwitch
    /\ LastEv.channel \in Banks
    /\ bank_states # InitBankStates
    /\ bank_states = prev.bank_states

-----------------------------------------------------------------------------
(* C15 *)

\* C15: active_bank changes only when a bank-select note-on with velocity > 0
\* and a channel other than active_bank is handled, and it then becomes that
\* channel; startup, knob movements, ignored and passed-through messages keep it.
C15_ActiveBankFrame ==
    /\ ~HasLast => active_bank = 0
    /\ HasLast =>
        active_bank = IF LastIsSwitch THEN LastEv.channel ELSE prev.active_bank

\* a press with velocity 1 switches from a bank other than 0
C15_Witness ==
    /\ LastIsSwitch
    /\ LastEv.value = 1
    /\ prev.active_bank = 7
    /\ active_bank = LastEv.channel

\* a note-on with velocity 0 on the channel of another bank keeps the bank
C15_WitnessKept ==
    /\ HasLast
    /\ LastEv.type = "note_on" /\ LastEv.id = TRACK_SELECT_NOTE /\ LastEv.value = 0
    /\ LastEv.channel # prev.active_bank
    /\ active_bank = prev.active_bank

-----------------------------------------------------------------------------
(* C16 *)

\* s is a prefix of t, and shorter
IsStrictPrefix(s, t) ==
    Len(s) < Len(t) /\ s = SubSeq(t, 1, Len(s))

\* all the sends of the step that was under way when a send raised: those of
\* startup, or those of the last message read
SendsUnderWay ==
    IF HasLast THEN Dispatch(LastEv, prev.active_bank, prev.bank_states).sends
    ELSE InitialSends

\* C16: a failing send (during startup, LED feedback, recall, live update or
\* passthrough) is fatal and not retried: the process has stopped, the sends of
\* the step under way stop short of the failing one, and from then on no
\* inbound message is read and nothing more is sent on either port.
C16_SendFailureFatal ==
    /\ [](failed =>
            /\ pc = "crashed"
            /\ IsStrictPrefix(SubSeq(out, prev.outLen + 1, Len(out)), SendsUnderWay))
    /\ [][failed => UNCHANGED <<pc, out, trace, active_bank, bank_states>>]_vars

\* the virt.send of a live update raised after the value was stored, with
\* inbound messages still to come
C16_Witness ==
    /\ failed
    /\ pc = "crashed"
    /\ LastIsKnob
    /\ Emitted = << >>
    /\ bank_states # prev.bank_states
    /\ Len(trace) < MaxEvents

\* a send raised in the middle of a recall, and during startup
C16_WitnessRecall ==
    failed /\ LastIsSwitch /\ Len(Emitted) = 9

C16_WitnessStartup ==
    failed /\ ~HasLast /\ Len(out) = 17

-----------------------------------------------------------------------------
(* C17 *)

\* recall number i: 0 is the recall of startup, i > 0 the recall of the i-th
\* inbound message when that is a press for one of the NUM_BANKS banks other
\* than the active one
IsRecall(i) ==
    \/ i = 0
    \/ /\ i \in DOMAIN trace
       /\ IsPress(trace[i].ev)
       /\ trace[i].ev.channel # trace[i].bank
       /\ trace[i].ev.channel \in Banks

RecallBankOf(i) == IF i = 0 THEN 0 ELSE trace[i].ev.channel

\* where the sends of the i-th inbound message end in `out`
SendsEnd(i) == IF i < Len(trace) THEN trace[i + 1].at ELSE Len(out)

\* the sends of recall number i, after the LED messages that precede them
RecallSendsOf(i) ==
    IF i = 0 THEN SubSeq(out, StartupLen - 31, StartupLen)
    ELSE SubSeq(out, trace[i].at + NUM_BANKS + 1, SendsEnd(i))

\* no knob of bank b was written by the inbound messages i+1 .. j-1
NoWriteBetween(i, j, b) ==
    \A k \in (i + 1)..(j - 1) :
        ~(/\ trace[k].ev.type = "control_change"
          /\ trace[k].ev.id \in DeviceControls \cup TrackControls
          /\ trace[k].bank = b)

\* C17: two recalls of the same bank with no knob write to that bank between
\* them (e.g. switching away and back) send identical sequences: the same
\* messages, in the same order, to the same ports.
C17_RecallDeterministic ==
    pc # "start" =>
        \A i, j \in 0..Len(trace) :
            (/\ i < j
             /\ IsRecall(i) /\ IsRecall(j)
             /\ RecallBankOf(i) = RecallBankOf(j)
             /\ NoWriteBetween(i, j, RecallBankOf(i)))
                => /\ Len(RecallSendsOf(j)) = 32
                   /\ RecallSendsOf(i) = RecallSendsOf(j)

\* bank 0 is recalled at startup and again after a switch to bank 7 and a knob
\* movement there
C17_Witness ==
    /\ Len(trace) = 3
    /\ IsRecall(1) /\ RecallBankOf(1) = 7
    /\ trace[2].ev.type = "control_change" /\ trace[2].ev.id \in DeviceControls
    /\ trace[2].ev.value # 0
    /\ IsRecall(3) /\ RecallBankOf(3) = 0
    /\ RecallSendsOf(0) = RecallSendsOf(3)
    /\ RecallSendsOf(1) # RecallSendsOf(3)

-----------------------------------------------------------------------------
(* C18 *)

\* the sends s follow the order of a bank switch as far as they go: first the
\* NUM_BANKS LED note-ons to hw, then for each control its control-change to hw
\* (channel 0) immediately followed by the same control and value to virt, the
\* Device controls before the Track controls
SwitchOrder(s) ==
    LET nLed == NUM_BANKS
        nDev == 2 * Len(DEVICE_VALUE_CCS)
        nTrk == 2 * Len(TRACK_VALUE_CCS)
    IN  /\ Len(s) <= nLed + nDev + nTrk
        /\ \A p \in DOMAIN s :
            IF p <= nLed THEN
                /\ s[p].port = "hw"
                /\ s[p].msg.type = "note_on"
                /\ s[p].msg.id = TRACK_SELECT_NOTE
            ELSE
                /\ s[p].msg.type = "control_change"
                /\ IF p <= nLed + nDev
                       THEN s[p].msg.id \in DeviceControls
                       ELSE s[p].msg.id \in TrackControls
                /\ IF (p - nLed) % 2 = 1
                       THEN s[p].port = "hw" /\ s[p].msg.channel = 0
                       ELSE /\ s[p].port = "virt"
                            /\ s[p - 1].port = "hw"
                            /\ s[p].msg.id = s[p - 1].msg.id
                            /\ s[p].msg.value = s[p - 1].msg.value

\* C18: in a bank switch active_bank is set to the target first (it holds the
\* target however early a send raises), then the NUM_BANKS LED messages are
\* sent, and only then the recall; in the recall each control's hw
\* control-change comes immediately before its virt control-change, all Device
\* controls before all Track controls.
C18_SwitchStepOrder ==
    LastIsSwitch =>
        /\ active_bank = LastEv.channel
        /\ SwitchOrder(Emitted)
        /\ (pc # "crashed") =>
            Len(Emitted) = NUM_BANKS + 2 * (Len(DEVICE_VALUE_CCS) + Len(TRACK_VALUE_CCS))

\* a complete switch to a bank that holds a Device and a Track value
C18_Witness ==
    /\ LastIsSwitch
    /\ ~failed
    /\ pc = "listening"
    /\ Len(Emitted) = 40
    /\ \E c \in DeviceControls : bank_states[active_bank].device[c] # 0

\* the first LED send raised: nothing was sent, and active_bank is the target
C18_WitnessActiveFirst ==
    /\ LastIsSwitch
    /\ failed
    /\ Emitted = << >>
    /\ active_bank = LastEv.channel
    /\ active_bank # prev.active_bank

\* the first send of the recall raised: exactly the LEDs were sent
C18_WitnessLedsFirst ==
    /\ LastIsSwitch
    /\ failed
    /\ Len(Emitted) = NUM_BANKS

-----------------------------------------------------------------------------
(* C19 *)

\* out[p] is a control-change for control c sent to hw on channel 0
IsHwSend(p, c) ==
    /\ out[p].port = "hw"
    /\ out[p].msg.type = "control_change"
    /\ out[p].msg.id = c
    /\ out[p].msg.channel = 0

\* the k-th inbound message is a knob movement of control c
IsKnobMove(k, c) ==
    trace[k].ev.type = "control_change" /\ trace[k].ev.id = c

\* the value stored for control c in the active bank
ActiveValue(c) ==
    IF c \in DeviceControls
        THEN bank_states[active_bank].device[c]
        ELSE bank_states[active_bank].track[c]

\* the position in out[1..p] of the last control-change for control c sent to
\* hw on channel 0; 0 when there is none
RECURSIVE LastHwSend(_, _)
LastHwSend(c, p) ==
    IF p = 0 THEN 0
    ELSE IF IsHwSend(p, c) THEN p
         ELSE LastHwSend(c, p - 1)

\* the index in trace[1..i] of the last inbound knob message for control c;
\* 0 when there is none
RECURSIVE LastKnobMove(_, _)
LastKnobMove(c, i) ==
    IF i = 0 THEN 0
    ELSE IF trace[i].ev.type = "control_change" /\ trace[i].ev.id = c
         THEN i
         ELSE LastKnobMove(c, i - 1)

\* the value the hardware holds for control c: that of the later of its own
\* last knob movement and the last control-change sent to it
HwHeld(c) ==
    LET k == LastKnobMove(c, Len(trace))
        p == LastHwSend(c, Len(out))
    IN  IF k > 0 /\ trace[k].at >= p THEN trace[k].ev.value
        ELSE IF p > 0 THEN out[p].msg.value
        ELSE -1

\* C19: after startup and after each fully handled inbound message, the value
\* the hardware last held for every Device and Track control equals the value
\* bank_states stores for it in the active bank.
\* (Stated on the candidates for "last held": a control-change sent to hw, or
\* a knob movement, either carries the stored value or was overtaken by a
\* later send or movement for the same control; and every control has one.)
C19_HardwareConsistent ==
    pc \in {"listening", "done"} =>
        /\ \A p \in DOMAIN out :
            (/\ out[p].port = "hw"
             /\ out[p].msg.type = "control_change"
             /\ out[p].msg.channel = 0
             /\ out[p].msg.id \in DeviceControls \cup TrackControls)
                => \/ out[p].msg.value = ActiveValue(out[p].msg.id)
                   \/ \E q \in (p + 1)..Len(out) : IsHwSend(q, out[p].msg.id)
                   \/ \E k \in DOMAIN trace :
                        IsKnobMove(k, out[p].msg.id) /\ trace[k].at >= p
        /\ \A k \in DOMAIN trace :
            (/\ trace[k].ev.type = "control_change"
             /\ trace[k].ev.id \in DeviceControls \cup TrackControls)
                => \/ trace[k].ev.value = ActiveValue(trace[k].ev.id)
                   \/ \E j \in (k + 1)..Len(trace) : IsKnobMove(j, trace[k].ev.id)
                   \/ \E q \in (trace[k].at + 1)..Len(out) :
                        IsHwSend(q, trace[k].ev.id)
        /\ (DeviceControls \cup TrackControls) \subseteq
                {out[p].msg.id :
                    p \in {q \in DOMAIN out :
                              /\ out[q].port = "hw"
                              /\ out[q].msg.type = "control_change"
                              /\ out[q].msg.channel = 0}}

\* a knob was moved in one bank and the hardware then got another value for it
\* from the recall of another bank
C19_Witness ==
    /\ pc = "listening"
    /\ LastIsSwitch
    /\ \E c \in DeviceControls :
        /\ LastKnobMove(c, Len(trace)) > 0
        /\ trace[LastKnobMove(c, Len(trace))].ev.value # 0
        /\ LastHwSend(c, Len(out)) > prev.outLen
        /\ HwHeld(c) = 0
        /\ bank_states[active_bank].device[c] = 0

-----------------------------------------------------------------------------
(* C20 *)

KnobControls == DeviceControls \cup TrackControls

\* out[p] is a control-change for knob control c sent to virt on channel ch
IsVirtKnob(p, ch, c) ==
    /\ out[p].port = "virt"
    /\ out[p].msg.type = "control_change"
    /\ out[p].msg.id = c
    /\ out[p].msg.channel = ch

\* the stored value that virtual channel ch mirrors for control c: Device
\* controls on channels [0, NUM_BANKS), Track controls on the NUM_BANKS above
Mirrored(ch, c) ==
    IF c \in DeviceControls
        THEN bank_states[ch].device[c]
        ELSE bank_states[ch - NUM_BANKS].track[c]

\* channel ch mirrors a bank for control c
IsMirrorChannel(ch, c) ==
    \/ c \in DeviceControls /\ ch \in Banks
    \/ c \in TrackControls /\ (ch - NUM_BANKS) \in Banks

\* C20: after startup and after each fully handled inbound message, for every
\* bank b and control c the last control-change for c on virt channel b
\* (Device) or b + NUM_BANKS (Track) carries the stored value of (b, group, c),
\* and the stored value is 0 when there never was one; passthrough does not
\* break this.
C20_VirtualMirror ==
    pc # "start" =>
        /\ \A p \in DOMAIN out :
            (/\ out[p].port = "virt"
             /\ out[p].msg.type = "control_change"
             /\ out[p].msg.id \in KnobControls
             /\ IsMirrorChannel(out[p].msg.channel, out[p].msg.id))
                => \/ out[p].msg.value = Mirrored(out[p].msg.channel, out[p].msg.id)
                   \/ \E q \in (p + 1)..Len(out) :
                        IsVirtKnob(q, out[p].msg.channel, out[p].msg.id)
        /\ \A b \in Banks :
            /\ \A c \in DeviceControls :
                \/ bank_states[b].device[c] = 0
                \/ \E p \in DOMAIN out : IsVirtKnob(p, b, c)
            /\ \A c \in TrackControls :
                \/ bank_states[b].track[c] = 0
                \/ \E p \in DOMAIN out : IsVirtKnob(p, b + NUM_BANKS, c)

\* a value is stored in bank 0, another bank is active, and a control-change
\* was just passed through on virtual channel 0
C20_Witness ==
    /\ pc = "listening"
    /\ LastIsPassthrough
    /\ LastEv.type = "control_change"
    /\ LastEv.channel = 0
    /\ active_bank # 0
    /\ \E c \in DeviceControls :
        /\ bank_states[0].device[c] # 0
        /\ \E p \in DOMAIN out :
            /\ IsVirtKnob(p, 0, c)
            /\ out[p].msg.value = bank_states[0].device[c]
            /\ \A q \in (p + 1)..Len(out) : ~IsVirtKnob(q, 0, c)

====
